---------------------------- MODULE Spec2Model ----------------------------
(***************************************************************************)
(* Model of the rdAccess protocol engine (addon/lib/protocol/__init__.py): *)
(* message framing over a chunked byte stream, command dispatch, the       *)
(* pattern-matched attribute handler stores and the receive-side value     *)
(* cache.  Bytes are integers 0..255, byte strings are sequences of bytes. *)
(***************************************************************************)
EXTENDS Integers, Sequences, FiniteSets, TLC

VARIABLES
    driverType,       \* RemoteProtocolHandler.driverType of the handler under study
    byteorder,        \* sys.byteorder of the interpreter: "little" or "big"
    debug,            \* __debug__: FALSE when assert statements are compiled out (-O)
    commandHandlers,  \* keys of RemoteProtocolHandler._commandHandlers
    senders,          \* _attributeSenderStore.handlers, in registration order
    receivers,        \* _attributeValueProcessor.handlers, in registration order
    receiveBuffer,    \* RemoteProtocolHandler._receiveBuffer
    wire,             \* the frame the peer wrote last and how much of it was delivered
    sent,             \* history of the frames the peer wrote
    received,         \* the accumulated message the last _onReceive call worked on
    outcome,          \* how the last _onReceive call ended
    invoked,          \* the command handler invocation of the last _onReceive call
    dispatched,       \* history of command handler invocations: command and payload
    attrCalls,        \* history of attribute callback invocations
    written,          \* history of the byte strings given to _dev.write
    values,           \* AttributeValueProcessor._values
    valueTimes,       \* AttributeValueProcessor._valueTimes
    valueLocks,       \* AttributeValueProcessor._valueLocks: attribute -> holder
    now,              \* the reading of time.time()
    threads,          \* per thread: the call it is in and where in it
    cacheLog,         \* history of the value cache: what was set, fetched, defaulted
    phase,            \* "new" while __new__ registers handlers, then "ready"
    lookup,           \* the last _getRawHandler call: attribute and result
    remoteSessionhasFocus,  \* RemoteHandler._remoteSessionhasFocus
    focusProcess,     \* api.getFocusObject().processID
    voters,           \* decide_remoteDisconnect.handlers: what each one answers
    answer            \* the last RemoteHandler operation called and what it returned

config == <<driverType, byteorder, debug, commandHandlers, senders, receivers>>

streamVars == <<receiveBuffer, wire, sent, received, outcome, invoked, dispatched,
            attrCalls, written>>

cacheVars == <<values, valueTimes, valueLocks, now, threads, cacheLog>>

storeVars == <<phase, lookup>>

focusVars == <<remoteSessionhasFocus, focusProcess, voters, answer>>

vars == <<config, streamVars, cacheVars, storeVars, focusVars>>

-----------------------------------------------------------------------------
(* Bounds of the model *)

MaxFrames == 2     \* frames the peer writes in one behaviour
MaxCut == 5        \* chunk boundaries are tried at the offsets 1..MaxCut of a frame
MaxCalls == 3      \* calls of getValue and SetValue made in one behaviour
MaxTime == 1       \* the largest reading of time.time()
MaxVoters == 2     \* handlers registered on decide_remoteDisconnect

-----------------------------------------------------------------------------
(* Program constants *)

SPEECH == 83              \* DriverType.SPEECH = ord(b'S')
BRAILLE == 66             \* DriverType.BRAILLE = ord(b'B')
ATTRIBUTE == 64           \* GenericCommand.ATTRIBUTE = ord(b'@')
INTERCEPT_GESTURE == 73   \* GenericCommand.INTERCEPT_GESTURE = ord(b'I')
DISPLAY == 68             \* BrailleCommand.DISPLAY = ord(b'D')
CANCEL == 67              \* SpeechCommand.CANCEL = ord(b'C')
ATTRIBUTE_SEPARATOR == 96 \* b'`'
STAR == 42                \* b'*', the wildcard of fnmatch and of _isCatchAll
QUESTION == 63            \* b'?', fnmatch's single-byte wildcard

DriverType == {SPEECH, BRAILLE}

Min(a, b) == IF a < b THEN a ELSE b

-----------------------------------------------------------------------------
(* Byte strings *)

\* Python's s[a:b] on a byte string: 0-based, end-exclusive, clamped to the string
Slice(s, a, b) ==
    IF a >= Min(b, Len(s)) THEN <<>> ELSE SubSeq(s, a + 1, Min(b, Len(s)))

\* Python's s[a:]
SliceFrom(s, a) == Slice(s, a, Len(s))

Reverse(s) == [i \in 1..Len(s) |-> s[Len(s) + 1 - i]]

Contains(s, b) == \E i \in 1..Len(s) : s[i] = b

\* bytes.find: 1-based index of the first occurrence of byte b in s, 0 when absent
Find(s, b) ==
    IF Contains(s, b)
    THEN CHOOSE i \in 1..Len(s) : s[i] = b /\ \A j \in 1..(i - 1) : s[j] # b
    ELSE 0

\* len(payload).to_bytes(length=2, byteorder=order, signed=False), for n < 65536
ToBytesBroken(n, order) == <<n % 256, 0>>
ToBytes(n, order) ==
    IF order = "little"
    THEN <<n % 256, (n \div 256) % 256>>
    ELSE <<(n \div 256) % 256, n % 256>>

RECURSIVE FromBytesBig(_)
FromBytesBig(bs) ==
    IF bs = <<>> THEN 0
    ELSE FromBytesBig(SubSeq(bs, 1, Len(bs) - 1)) * 256 + bs[Len(bs)]

\* int.from_bytes(bs, order) of a byte string of any length, the empty one included
FromBytes(bs, order) ==
    IF order = "big" THEN FromBytesBig(bs) ELSE FromBytesBig(Reverse(bs))

-----------------------------------------------------------------------------
(* fnmatch *)

\* os.path.normcase of ntpath: '/' becomes '\', upper case ASCII becomes lower case
NormCaseByte(b) ==
    IF b = 47 THEN 92
    ELSE IF b >= 65 /\ b <= 90 THEN b + 32
    ELSE b

NormCase(s) == [i \in 1..Len(s) |-> NormCaseByte(s[i])]

\* fnmatch.fnmatchcase for patterns made of literals, '*' and '?'
RECURSIVE FnmatchCase(_, _)
FnmatchCase(name, pat) ==
    IF pat = <<>> THEN name = <<>>
    ELSE IF Head(pat) = STAR
    THEN FnmatchCase(name, Tail(pat))
         \/ (name # <<>> /\ FnmatchCase(Tail(name), pat))
    ELSE /\ name # <<>>
         /\ (Head(pat) = QUESTION \/ Head(pat) = Head(name))
         /\ FnmatchCase(Tail(name), Tail(pat))

\* fnmatch.fnmatch: both arguments are case-normalised, then matched
Fnmatch(name, pat) == FnmatchCase(NormCase(name), NormCase(pat))

-----------------------------------------------------------------------------
(* Attribute names and registration patterns, as byte strings *)

rate == <<114, 97, 116, 101>>                          \* b"rate"
Rate == <<82, 97, 116, 101>>                           \* b"Rate"
volume == <<118, 111, 108, 117, 109, 101>>             \* b"volume"
availableVoices ==                                     \* b"availableVoices"
    <<97, 118, 97, 105, 108, 97, 98, 108, 101, 86, 111, 105, 99, 101, 115>>
availableStar ==                                       \* b"available*"
    <<97, 118, 97, 105, 108, 97, 98, 108, 101, 42>>
availableStarS ==                                      \* b"available*s"
    <<97, 118, 97, 105, 108, 97, 98, 108, 101, 42, 115>>
supportedSettings ==                                   \* GenericAttribute.SUPPORTED_SETTINGS
    <<115, 117, 112, 112, 111, 114, 116, 101, 100, 83, 101, 116, 116, 105, 110, 103, 115>>
star == <<42>>                                         \* b"*"

\* pickle.dumps(obj, protocol=4): the protocol header followed by the object's bytes
Pickle(obj) == <<128, 4>> \o obj

-----------------------------------------------------------------------------
(* AttributeHandler and AttributeHandlerStore *)

\* The positional arguments, after self, the callback of a handler accepts.
\*   senders:   "plain"    def f(self)                  -> bytes
\*              "optional" def f(self, settings=None)   -> bytes
\*              "named"    def f(self, attribute)       -> bytes
\*   receivers: "exact"    def f(self, payload)         (AttributeReceiverUnboundT)
\*              "wild"     def f(self, attribute, payload)
\*                                                      (WildCardAttributeReceiverUnboundT)
Params(h) ==
    CASE h.fn = "plain" -> {0}
      [] h.fn = "optional" -> {0, 1}
      [] h.fn = "named" -> {1}
      [] h.fn = "exact" -> {1}
      [] h.fn = "wild" -> {2}

\* AttributeHandler._isCatchAll
IsCatchAll(h) == Contains(h.attribute, STAR)

\* AttributeHandlerStore._getRawHandler: the index in the store of the first handler
\* whose pattern matches, 0 standing for NotImplementedError
GetRawHandler(store, attribute) ==
    IF \E i \in 1..Len(store) : Fnmatch(attribute, store[i].attribute)
    THEN CHOOSE i \in 1..Len(store) :
            /\ Fnmatch(attribute, store[i].attribute)
            /\ \A j \in 1..(i - 1) : ~Fnmatch(attribute, store[j].attribute)
    ELSE 0

\* AttributeHandler.__call__(protocolHandler, attribute, *args): the arguments the
\* callback is called with
CallArgs(h, attribute, args) ==
    IF IsCatchAll(h) THEN <<attribute>> \o args ELSE args

\* The value a receiver callback converts the received bytes to
Convert(h, value) == FromBytes(value, byteorder)

\* A receiver callback that starts with assert len(payload) == size raises
\* AssertionError on a payload of another length, unless asserts are compiled out
ConversionRaises(h, value) == debug /\ "size" \in DOMAIN h /\ Len(value) # h.size

\* The bytes a sender callback returns
FetchValue(h, callArgs) ==
    IF h.fn = "optional"
    THEN (IF callArgs = <<>> THEN Pickle(h.value) ELSE Pickle(callArgs[1]))
    ELSE h.value

-----------------------------------------------------------------------------
(* RemoteProtocolHandler: sending *)

\* The bytes writeMessage hands to _dev.write
MessageData(type, command, payload, order) ==
    <<type, command>> \o ToBytes(Len(payload), order) \o payload

\* The payload of setRemoteAttribute / REQUESTRemoteAttribute
AttributePayload(attribute, value) ==
    <<ATTRIBUTE_SEPARATOR>> \o attribute \o <<ATTRIBUTE_SEPARATOR>> \o value

-----------------------------------------------------------------------------
(* RemoteProtocolHandler: receiving *)

NoCall == [exc |-> "none", calls |-> <<>>, writes |-> <<>>]

Raise(e) == [exc |-> e, calls |-> <<>>, writes |-> <<>>]

\* _handleAttributeChanges(payload): the exception that leaves it ("none" when it
\* returns), the attribute callbacks it runs and the frames it writes
HandleAttributeChanges(payload) ==
    LET rest == SliceFrom(payload, 1)
        sep == Find(rest, ATTRIBUTE_SEPARATOR)
        attribute == SubSeq(rest, 1, sep - 1)
        value == SliceFrom(rest, sep)
    IN  IF sep = 0 THEN Raise("ValueError")
        ELSE IF value = <<>>
        THEN LET i == GetRawHandler(senders, attribute)
                 \* partial(rawHandler, attribute)(attribute)
                 args == CallArgs(senders[i], attribute, <<attribute>>)
             IN  IF i = 0 THEN NoCall
                 ELSE IF Len(args) \notin Params(senders[i])
                 THEN Raise("TypeError")
                 ELSE [exc |-> "none",
                       calls |-> <<[store |-> "sender", index |-> i, args |-> args]>>,
                       writes |-> <<MessageData(driverType, ATTRIBUTE,
                                        AttributePayload(attribute,
                                            FetchValue(senders[i], args)),
                                        byteorder)>>]
        ELSE LET i == GetRawHandler(receivers, attribute)
                 \* partial(rawHandler, attribute)(attribute, value)
                 args == CallArgs(receivers[i], attribute, <<attribute, value>>)
             IN  IF i = 0 THEN NoCall
                 ELSE IF Len(args) \notin Params(receivers[i])
                 THEN Raise("TypeError")
                 ELSE [exc |-> IF ConversionRaises(receivers[i], args[Len(args)])
                               THEN "AssertionError" ELSE "none",
                       calls |-> <<[store |-> "receiver", index |-> i, args |-> args]>>,
                       writes |-> <<>>]

\* A command handler other than _handleAttributeChanges: its body is the driver's
CommandHandler(command, payload) ==
    IF command = ATTRIBUTE THEN HandleAttributeChanges(payload) ELSE NoCall

\* line 259: int.from_bytes(message[2:4], sys.byteorder)
DeclaredLength(message) == FromBytes(Slice(message, 2, 4), byteorder)

\* line 256: the leading byte is not the handler's driver type
UnexpectedPayloadNever(message) == FALSE
UnexpectedPayload(message) == message[1] # driverType

\* line 261: the condition under which the accumulated message is kept for later
KeepBuffering(length, payload) == length < Len(payload)

\* line 264: assert length == len(payload), a no-op when asserts are compiled out
AssertionFails(length, payload) == debug /\ length # Len(payload)

\* lines 265-266: self._commandHandlers.get(command) finds nothing
NoHandlerNever(command) == FALSE
NoHandler(command) == command \notin commandHandlers

\* _onReceive(chunk): the accumulated message, the new receive buffer, how the call
\* ends, the command handler invocation (a sequence of at most one) and what that
\* handler did
OnReceiveWith(buffer, chunk) ==
    LET message == IF buffer # <<>> THEN buffer \o chunk ELSE chunk
        command == message[2]
        length == DeclaredLength(message)
        payload == SliceFrom(message, 4)
        quiet(e) == [message |-> message, buffer |-> buffer, exc |-> e,
                     dispatch |-> <<>>, calls |-> <<>>, writes |-> <<>>]
    IN  IF message = <<>> THEN quiet("IndexError")
        ELSE IF UnexpectedPayload(message) THEN quiet("RuntimeError")
        ELSE IF Len(message) < 2 THEN quiet("IndexError")
        ELSE IF KeepBuffering(length, payload)
        THEN [quiet("none") EXCEPT !.buffer = message]
        ELSE IF AssertionFails(length, payload) THEN quiet("AssertionError")
        ELSE IF NoHandler(command) THEN quiet("none")
        ELSE LET h == CommandHandler(command, payload)
             IN  [message |-> message, buffer |-> buffer, exc |-> h.exc,
                  dispatch |-> <<[command |-> command, payload |-> payload]>>,
                  calls |-> h.calls, writes |-> h.writes]

OnReceive(chunk) == OnReceiveWith(receiveBuffer, chunk)

\* What the caller of _onReceive sees of the way it ended
OutcomeReturned(exc) == "returned"
Outcome(exc) == IF exc = "none" THEN "returned" ELSE exc

-----------------------------------------------------------------------------
(* The handler registries of the behaviours studied *)

SenderFixture ==
    <<[attribute |-> rate, fn |-> "plain", value |-> <<50>>],
      [attribute |-> supportedSettings, fn |-> "optional", value |-> <<1>>],
      [attribute |-> availableStarS, fn |-> "named", value |-> <<2>>]>>

ReceiverFixture ==
    <<[attribute |-> rate, fn |-> "exact", default |-> 0],
      [attribute |-> availableStar, fn |-> "wild", default |-> 0]>>

CatchAllSender == [attribute |-> star, fn |-> "named", value |-> <<3>>]

CatchAllReceiver == [attribute |-> star, fn |-> "wild", default |-> 0]

\* RemoteProtocolHandler.__new__: the commands with a handler.  The handler of
\* GenericCommand.ATTRIBUTE is inherited; a braille handler adds DISPLAY, a speech
\* handler CANCEL.
CommandsOf(type) == {ATTRIBUTE} \cup (IF type = BRAILLE THEN {DISPLAY} ELSE {CANCEL})

-----------------------------------------------------------------------------
(* The parts of the state a specification leaves alone *)

StreamInit ==
    /\ receiveBuffer = <<>>
    /\ wire = [data |-> <<>>, pos |-> 0]
    /\ sent = <<>>
    /\ received = <<>>
    /\ outcome = "idle"
    /\ invoked = <<>>
    /\ dispatched = <<>>
    /\ attrCalls = <<>>
    /\ written = <<>>

CacheInit ==
    /\ values = <<>>
    /\ valueTimes = <<>>
    /\ valueLocks = <<>>
    /\ now = 0
    /\ threads = <<>>
    /\ cacheLog = <<>>

StoreInit ==
    /\ phase = "ready"
    /\ lookup = <<>>

\* RemoteHandler: _remoteSessionhasFocus = None (line 28), no voter registered on
\* decide_remoteDisconnect (line 37), the focus in a local process
FocusInit ==
    /\ remoteSessionhasFocus = <<>>
    /\ focusProcess = "local"
    /\ voters = <<>>
    /\ answer = [op |-> "none", ret |-> <<>>, voters |-> <<>>, before |-> <<>>,
                 calls |-> 0]

-----------------------------------------------------------------------------
(* What the peer sends *)

Zeros(n) == [i \in 1..n |-> 0]

OtherType(type) == IF type = SPEECH THEN BRAILLE ELSE SPEECH

SendCommands == {ATTRIBUTE, DISPLAY, CANCEL}

\* The payloads of the frames whose chunking is studied
FramingPayloads(command) ==
    IF command = ATTRIBUTE THEN {AttributePayload(rate, <<>>)} ELSE {<<>>, <<7, 8>>}

\* The payloads of the frames whose dispatch is studied
DispatchPayloads(command) ==
    IF command = ATTRIBUTE
    THEN {AttributePayload(a, v) : a \in {rate, volume}, v \in {<<>>, <<40>>}}
         \cup {<<7>>}
    ELSE {<<>>, <<7>>, Zeros(256)}

-----------------------------------------------------------------------------
(* Framing: the peer writes frames, the transport delivers them in chunks *)

Delivered == wire.pos = Len(wire.data)

Put(data, kind, command, payload) ==
    /\ Delivered
    /\ Len(sent) < MaxFrames
    /\ wire' = [data |-> data, pos |-> 0]
    /\ sent' = Append(sent, [kind |-> kind, command |-> command, payload |-> payload])
    /\ UNCHANGED <<focusVars, config, receiveBuffer, received, outcome, invoked, dispatched,
                   attrCalls, written, cacheVars, storeVars>>

\* The peer, a handler of the same driver type, calls writeMessage(command, payload)
PeerWrite(command, payload) ==
    Put(MessageData(driverType, command, payload, byteorder), "frame", command, payload)

\* A handler of the other driver type writes to this transport
PeerWriteForeign(command, payload) ==
    Put(MessageData(OtherType(driverType), command, payload, byteorder),
        "foreign", command, payload)

\* The stream carries more payload bytes than the header declares
PeerWriteOverlong(command, payload) ==
    /\ payload # <<>>
    /\ Put(<<driverType, command>> \o ToBytes(Len(payload) - 1, byteorder) \o payload,
           "overlong", command, payload)

\* The offsets of the frame in flight at which the next chunk may end
CutPoints == {k \in (wire.pos + 1)..Len(wire.data) : k <= MaxCut \/ k = Len(wire.data)}

\* The I/O thread hands the bytes up to offset k to _onReceive
Deliver(k) ==
    /\ k \in CutPoints
    /\ LET r == OnReceive(SubSeq(wire.data, wire.pos + 1, k))
       IN  /\ receiveBuffer' = r.buffer
           /\ received' = r.message
           /\ outcome' = Outcome(r.exc)
           /\ invoked' = r.dispatch
           /\ dispatched' = dispatched \o r.dispatch
           /\ attrCalls' = attrCalls \o r.calls
           /\ written' = written \o r.writes
    /\ wire' = [wire EXCEPT !.pos = k]
    /\ UNCHANGED <<focusVars, config, sent, cacheVars, storeVars>>

\* The I/O thread hands the whole frame to _onReceive
DeliverWhole == wire.pos = 0 /\ Deliver(Len(wire.data))

ConfigInit(catchAlls) ==
    /\ driverType \in DriverType
    /\ byteorder \in {"little", "big"}
    /\ debug \in BOOLEAN
    /\ commandHandlers = CommandsOf(driverType)
    /\ \E catchAll \in catchAlls :
        /\ senders = SenderFixture \o (IF catchAll THEN <<CatchAllSender>> ELSE <<>>)
        /\ receivers =
              ReceiverFixture \o (IF catchAll THEN <<CatchAllReceiver>> ELSE <<>>)

Init == ConfigInit({FALSE}) /\ StreamInit /\ CacheInit /\ StoreInit /\ FocusInit

Next ==
    \/ \E c \in SendCommands : \E p \in FramingPayloads(c) : PeerWrite(c, p)
    \/ \E c \in commandHandlers \ {ATTRIBUTE} : PeerWriteForeign(c, <<7>>)
    \/ \E c \in commandHandlers \ {ATTRIBUTE} : PeerWriteOverlong(c, <<7, 8>>)
    \/ \E k \in 1..Len(wire.data) : Deliver(k)

Spec == Init /\ [][Next]_vars

-----------------------------------------------------------------------------
(* Dispatch: every frame reaches _onReceive as one chunk *)

InitDispatch ==
    ConfigInit(BOOLEAN) /\ StreamInit /\ CacheInit /\ StoreInit /\ FocusInit

NextDispatch ==
    \/ \E c \in SendCommands : \E p \in DispatchPayloads(c) : PeerWrite(c, p)
    \/ \E c \in commandHandlers \ {ATTRIBUTE} : PeerWriteForeign(c, <<7>>)
    \/ \E c \in commandHandlers \ {ATTRIBUTE} : PeerWriteOverlong(c, <<7, 8>>)
    \/ DeliverWhole

SpecDispatch == InitDispatch /\ [][NextDispatch]_vars

-----------------------------------------------------------------------------
(* Properties of framing and dispatch *)

Errors == {"RuntimeError", "IndexError", "AssertionError", "ValueError", "TypeError"}

\* The command handler invocations the frames written so far call for, in order
RECURSIVE Owed(_)
Owed(frames) ==
    IF frames = <<>> THEN <<>>
    ELSE LET f == frames[Len(frames)]
             before == Owed(SubSeq(frames, 1, Len(frames) - 1))
         IN  IF f.kind = "frame" /\ f.command \in commandHandlers
             THEN Append(before, [command |-> f.command, payload |-> f.payload])
             ELSE before

\* The step is a call of _onReceive
IsDeliver == wire'.data = wire.data /\ wire'.pos > wire.pos

\* The bytes that call works on: the receive buffer followed by the new chunk
Accumulated == receiveBuffer \o SubSeq(wire.data, wire.pos + 1, wire'.pos)

\* C1: a frame produced by writeMessage(command, P) and fed as one chunk to
\* _onReceive of a handler of the same driver type invokes the handler registered for
\* the command exactly once, with payload P: when every frame written so far came
\* whole and none overran its header, the handler invocations are exactly those the
\* frames with a registered command call for, in order and with the payloads written.
C1_RoundTrip ==
    (Delivered /\ \A i \in 1..Len(sent) : sent[i].kind \in {"frame", "foreign"})
        => dispatched = Owed(sent)

\* C1 witness: a frame with a 256 byte payload was written, delivered and dispatched
C1_Witness ==
    /\ Delivered
    /\ Len(sent) = 1
    /\ sent[1].kind = "frame"
    /\ Len(sent[1].payload) = 256
    /\ dispatched = <<[command |-> sent[1].command, payload |-> sent[1].payload]>>

\* C2: feeding a frame in two or more chunks gives the same single dispatch, the same
\* handler effects and the same ending as feeding it as one chunk.
C2_ChunkingIndependence ==
    (Delivered /\ Len(sent) = 1 /\ sent[1].kind = "frame")
        => LET whole == OnReceiveWith(<<>>, wire.data)
           IN  /\ dispatched = whole.dispatch
               /\ outcome = Outcome(whole.exc)
               /\ attrCalls = whole.calls
               /\ written = whole.writes

\* C3: when the accumulated bytes carry a payload shorter than the declared length,
\* _onReceive keeps them in the receive buffer, invokes no handler and raises nothing;
\* a handler is only ever invoked with a payload of the declared length.
C3_IncompleteIsBuffered ==
    (outcome # "idle" /\ Len(received) >= 4 /\ received[1] = driverType)
        => /\ DeclaredLength(received) > Len(received) - 4
                => (receiveBuffer = received /\ invoked = <<>> /\ outcome = "returned")
           /\ invoked # <<>> => Len(invoked[1].payload) = DeclaredLength(received)

\* C4: after every dispatch the receive buffer is empty, and valid frames delivered in
\* order, each in one or more chunks, are each dispatched exactly once and in order.
C4_EachFrameOnceInOrder ==
    /\ invoked # <<>> => receiveBuffer = <<>>
    /\ (Delivered /\ \A i \in 1..Len(sent) : sent[i].kind = "frame")
          => (dispatched = Owed(sent) /\ receiveBuffer = <<>>)

\* C5: when the accumulated bytes carry a payload longer than the declared length,
\* _onReceive signals an error, dispatches nothing and does not keep the bytes.
C5_OverrunIsAnError ==
    (/\ outcome # "idle"
     /\ Len(received) >= 4
     /\ received[1] = driverType
     /\ DeclaredLength(received) < Len(received) - 4)
        => (outcome \in Errors /\ invoked = <<>> /\ receiveBuffer # received)

\* C6: when the first of the accumulated bytes is not the handler's driver type,
\* _onReceive raises RuntimeError, invokes no command handler and no attribute
\* callback, writes nothing and leaves the receive buffer and the attribute cache as
\* they were.
C6_LeadingByteMismatch ==
    [][(IsDeliver /\ Accumulated[1] # driverType)
          => /\ outcome' = "RuntimeError"
             /\ invoked' = <<>>
             /\ UNCHANGED <<dispatched, attrCalls, written, receiveBuffer, values,
                            valueTimes>>]_vars

\* C6 witness: _onReceive was called on bytes led by another driver type and raised
C6_Witness ==
    /\ received # <<>>
    /\ received[1] = OtherType(driverType)
    /\ outcome = "RuntimeError"
    /\ \E i \in 1..Len(sent) : sent[i].kind = "foreign"

\* The attribute names and values frames are written with
WireNames == {rate, volume}

WireValues == {<<>>, <<40>>}

NoMatch(handlers, attribute) ==
    \A i \in 1..Len(handlers) : ~Fnmatch(attribute, handlers[i].attribute)

\* A complete frame with nothing registered for it: a command without handler, an
\* attribute request without matching sender, an attribute update without receiver
UnknownCommand(f) == f.kind = "frame" /\ f.command \notin commandHandlers

UnknownAttribute(f) ==
    /\ f.kind = "frame"
    /\ f.command = ATTRIBUTE
    /\ \E a \in WireNames, v \in WireValues :
          /\ f.payload = AttributePayload(a, v)
          /\ IF v = <<>> THEN NoMatch(senders, a) ELSE NoMatch(receivers, a)

\* C7: a complete frame with an unknown command, or an attribute frame whose name
\* matches no sender (request) or receiver (update), makes _onReceive return without
\* an exception, run no handler, write nothing and leave the cache alone; the valid
\* frame that follows it is dispatched.
C7_UnknownTargetsDropped ==
    [][(IsDeliver /\ receiveBuffer = <<>> /\ wire.pos = 0 /\ Len(sent) > 0)
          => LET f == sent[Len(sent)]
             IN  /\ (UnknownCommand(f) \/ UnknownAttribute(f))
                      => /\ outcome' = "returned"
                         /\ receiveBuffer' = <<>>
                         /\ UnknownCommand(f) => invoked' = <<>>
                         /\ UNCHANGED <<attrCalls, written, values, valueTimes>>
                 /\ (/\ Len(sent) > 1
                     /\ LET g == sent[Len(sent) - 1]
                        IN  UnknownCommand(g) \/ UnknownAttribute(g)
                     /\ f.kind = "frame"
                     /\ f.command \in commandHandlers)
                      => dispatched' = Append(dispatched,
                                [command |-> f.command, payload |-> f.payload])]_vars

\* An attribute frame naming an attribute without handler was handed to
\* _handleAttributeChanges and dropped there without any callback, and the valid
\* frame after it was dispatched
C7_Witness ==
    /\ Delivered
    /\ Len(sent) = 2
    /\ UnknownAttribute(sent[1])
    /\ sent[2].kind = "frame"
    /\ sent[2].command \in commandHandlers
    /\ dispatched = <<[command |-> ATTRIBUTE, payload |-> sent[1].payload],
                      [command |-> sent[2].command, payload |-> sent[2].payload]>>
    /\ attrCalls = <<>>
    /\ outcome = "returned"

-----------------------------------------------------------------------------
(* Registration and resolution: __new__ fills the stores, _getRawHandler reads them *)

\* The attribute handlers a handler class may declare
SenderPool ==
    {[attribute |-> rate, fn |-> "plain", value |-> <<50>>],
     [attribute |-> availableStar, fn |-> "named", value |-> <<2>>],
     CatchAllSender}

ReceiverPool ==
    {[attribute |-> rate, fn |-> "exact", default |-> 0],
     [attribute |-> availableStar, fn |-> "wild", default |-> 0],
     CatchAllReceiver}

\* The attribute names looked up
LookupNames == {rate, Rate, availableVoices, volume}

Registered(handlers) == {handlers[i] : i \in 1..Len(handlers)}

InitStore ==
    /\ driverType \in DriverType
    /\ byteorder = "little"
    /\ debug = TRUE
    /\ commandHandlers = CommandsOf(driverType)
    /\ senders = <<>>
    /\ receivers = <<>>
    /\ phase = "new"
    /\ lookup = <<>>
    /\ StreamInit
    /\ CacheInit
    /\ FocusInit

\* __new__, line 244: self._attributeSenderStore.register(getattr(self, k))
RegisterSender(h) ==
    /\ phase = "new"
    /\ h \notin Registered(senders)
    /\ senders' = Append(senders, h)
    /\ UNCHANGED <<focusVars, driverType, byteorder, debug, commandHandlers, receivers,
                   streamVars, cacheVars, storeVars>>

\* __new__, line 246: self._attributeValueProcessor.register(getattr(self, k))
RegisterReceiver(h) ==
    /\ phase = "new"
    /\ h \notin Registered(receivers)
    /\ receivers' = Append(receivers, h)
    /\ UNCHANGED <<focusVars, driverType, byteorder, debug, commandHandlers, senders,
                   streamVars, cacheVars, storeVars>>

\* __new__ returns: the stores are not written again
Constructed ==
    /\ phase = "new"
    /\ phase' = "ready"
    /\ UNCHANGED <<focusVars, config, streamVars, cacheVars, lookup>>

\* self._attributeSenderStore._getRawHandler(attribute)
ResolveSender(attribute) ==
    /\ phase = "ready"
    /\ lookup' = [store |-> "sender", attribute |-> attribute,
                  index |-> GetRawHandler(senders, attribute)]
    /\ UNCHANGED <<focusVars, config, streamVars, cacheVars, phase>>

\* self._attributeValueProcessor._getRawHandler(attribute)
ResolveReceiver(attribute) ==
    /\ phase = "ready"
    /\ lookup' = [store |-> "receiver", attribute |-> attribute,
                  index |-> GetRawHandler(receivers, attribute)]
    /\ UNCHANGED <<focusVars, config, streamVars, cacheVars, phase>>

NextStore ==
    \/ \E h \in SenderPool : RegisterSender(h)
    \/ \E h \in ReceiverPool : RegisterReceiver(h)
    \/ Constructed
    \/ \E a \in LookupNames : ResolveSender(a)
    \/ \E a \in LookupNames : ResolveReceiver(a)

SpecStore == InitStore /\ [][NextStore]_vars

-----------------------------------------------------------------------------
(* Properties of resolution *)

\* Glob matching as the specification words it: a byte of the pattern other than
\* the wildcard matches that byte only, the wildcard matches any run of bytes
RECURSIVE Globs(_, _)
Globs(name, pat) ==
    IF pat = <<>> THEN name = <<>>
    ELSE IF Head(pat) = STAR
    THEN \E k \in 0..Len(name) : Globs(SubSeq(name, k + 1, Len(name)), Tail(pat))
    ELSE name # <<>> /\ Head(name) = Head(pat) /\ Globs(Tail(name), Tail(pat))

\* The earliest registered handler whose pattern glob-matches, 0 for a lookup error
FirstGlob(handlers, name) ==
    IF \E i \in 1..Len(handlers) : Globs(name, handlers[i].attribute)
    THEN CHOOSE i \in 1..Len(handlers) :
            /\ Globs(name, handlers[i].attribute)
            /\ \A j \in 1..(i - 1) : ~Globs(name, handlers[j].attribute)
    ELSE 0

LookedUpIn == IF lookup.store = "sender" THEN senders ELSE receivers

Patterns(handlers) == [i \in 1..Len(handlers) |-> handlers[i].attribute]

\* C8: resolve(name) returns the earliest registered handler whose pattern
\* glob-matches name, an exact pattern matching only itself, and fails when none
\* does; with "rate", "available*", "*" registered in this order "rate" resolves to
\* the first, "availableVoices" to the second and "volume" to the third handler, and
\* with the order reversed "rate" resolves to the catch-all.
C8_FirstMatchInOrder ==
    lookup # <<>> =>
        /\ lookup.index = FirstGlob(LookedUpIn, lookup.attribute)
        /\ Patterns(LookedUpIn) = <<rate, availableStar, star>> =>
              /\ lookup.attribute = rate => lookup.index = 1
              /\ lookup.attribute = availableVoices => lookup.index = 2
              /\ lookup.attribute = volume => lookup.index = 3
        /\ (Patterns(LookedUpIn) = <<star, availableStar, rate>>
                /\ lookup.attribute = rate) => lookup.index = 1

\* First match in registration order, with the matching fnmatch does
ResolvesFirstFnmatch ==
    lookup # <<>> =>
        LET i == lookup.index
            matches(j) == Fnmatch(lookup.attribute, LookedUpIn[j].attribute)
        IN  /\ i \in 0..Len(LookedUpIn)
            /\ i # 0 => matches(i)
            /\ \A j \in 1..Len(LookedUpIn) : (i = 0 \/ j < i) => ~matches(j)

-----------------------------------------------------------------------------
(* AttributeValueProcessor: the value cache, used from two threads *)

Threads == {"caller", "io"}

\* The attributes the cache is asked about: volume has no receiver
CacheNames == {rate, volume}

\* The typed values set
CacheValues == {1, 2}

Free == "free"

\* None, a value v being <<v>>
NoValue == <<>>

\* No exception
NoError == "none"

\* dict[key] = item
SetItemOnly(d, key, item) == [k \in {key} |-> item]
SetItem(d, key, item) ==
    [k \in DOMAIN d \cup {key} |-> IF k = key THEN item ELSE d[k]]

\* self._valueLocks[attribute] is free, the lock being made on first use
LockFreeAlways(attribute) == TRUE
LockFree(attribute) ==
    IF attribute \in DOMAIN valueLocks THEN valueLocks[attribute] = Free ELSE TRUE

\* getValue, line 206: attribute not in self._values
NotCachedAlways(attribute) == TRUE
NotCached(attribute) == attribute \notin DOMAIN values

\* SetValue, line 213: the time stored with the value
StoredTimeStale(attribute) ==
    IF attribute \in DOMAIN valueTimes THEN valueTimes[attribute] ELSE now
StoredTime(attribute) == now

\* hasNewValueSince, line 198, on a _valueTimes that holds the attribute
IsNewer(t, attribute) == t < valueTimes[attribute]

\* _getDefaultValue, lines 200-202: the default value getter of the receiver that
\* attribute resolves to
GetDefaultValue(attribute) == receivers[GetRawHandler(receivers, attribute)].default

Idle == [pc |-> "idle", op |-> "none", attribute |-> <<>>, arg |-> NoValue,
         ret |-> NoValue, exc |-> NoError]

InitCache ==
    /\ driverType = BRAILLE
    /\ byteorder = "little"
    /\ debug = TRUE
    /\ commandHandlers = CommandsOf(driverType)
    /\ senders = SenderFixture
    /\ receivers = ReceiverFixture
    /\ StreamInit
    /\ StoreInit
    /\ FocusInit
    /\ values = <<>>
    /\ valueTimes = <<>>
    /\ valueLocks = <<>>
    /\ now = 0
    /\ threads = [t \in Threads |-> Idle]
    /\ cacheLog = [calls |-> 0,
                   supplied |-> [a \in CacheNames |-> 0],
                   lastSet |-> [a \in CacheNames |-> NoValue],
                   setTimes |-> [a \in CacheNames |-> <<>>]]

Begin(t, op, attribute, arg) ==
    /\ threads[t].pc = "idle"
    /\ cacheLog.calls < MaxCalls
    /\ threads' = [threads EXCEPT ![t] =
            [pc |-> op, op |-> op, attribute |-> attribute, arg |-> arg,
             ret |-> NoValue, exc |-> NoError]]

Finish(t, ret, exc) ==
    threads' = [threads EXCEPT ![t] =
                    [@ EXCEPT !.pc = "idle", !.arg = NoValue, !.ret = ret, !.exc = exc]]

Goto(t, pc) == threads' = [threads EXCEPT ![t] = [@ EXCEPT !.pc = pc]]

\* A thread calls getValue(attribute) and arrives at the with statement
GetValueCall(t, attribute) ==
    /\ Begin(t, "getValue", attribute, NoValue)
    /\ cacheLog' = [cacheLog EXCEPT !.calls = @ + 1]
    /\ UNCHANGED <<focusVars, config, streamVars, storeVars, values, valueTimes, valueLocks, now>>

\* A thread calls SetValue(attribute, val) and arrives at the with statement
SetValueCall(t, attribute, val) ==
    /\ Begin(t, "SetValue", attribute, <<val>>)
    /\ cacheLog' = [cacheLog EXCEPT !.calls = @ + 1]
    /\ UNCHANGED <<focusVars, config, streamVars, storeVars, values, valueTimes, valueLocks, now>>

\* with self._valueLocks[attribute]: the lock is acquired
Acquire(t) ==
    /\ threads[t].pc \in {"getValue", "SetValue"}
    /\ LockFree(threads[t].attribute)
    /\ valueLocks' = SetItem(valueLocks, threads[t].attribute, t)
    /\ Goto(t, IF threads[t].pc = "getValue" THEN "getValue:check" ELSE "SetValue:value")
    /\ UNCHANGED <<focusVars, config, streamVars, storeVars, values, valueTimes, now, cacheLog>>

\* getValue, lines 206-207: the membership test, and for a missing value
\* _getDefaultValue: the receiver is resolved and its default value getter called
GetValueCheck(t) ==
    /\ threads[t].pc = "getValue:check"
    /\ LET a == threads[t].attribute
       IN  IF ~NotCached(a)
           THEN /\ Goto(t, "getValue:return")
                /\ UNCHANGED <<valueLocks, cacheLog>>
           ELSE IF GetRawHandler(receivers, a) = 0
           THEN \* NotImplementedError leaves the with statement
                /\ Finish(t, NoValue, "NotImplementedError")
                /\ valueLocks' = SetItem(valueLocks, a, Free)
                /\ UNCHANGED cacheLog
           ELSE /\ threads' = [threads EXCEPT ![t] =
                        [@ EXCEPT !.pc = "getValue:store", !.arg = <<GetDefaultValue(a)>>]]
                /\ cacheLog' = [cacheLog EXCEPT !.supplied[a] = @ + 1]
                /\ UNCHANGED valueLocks
    /\ UNCHANGED <<focusVars, config, streamVars, storeVars, values, valueTimes, now>>

\* getValue, line 207: self._values[attribute] = the default value
GetValueStore(t) ==
    /\ threads[t].pc = "getValue:store"
    /\ values' = SetItem(values, threads[t].attribute, threads[t].arg[1])
    /\ Goto(t, "getValue:return")
    /\ UNCHANGED <<focusVars, config, streamVars, storeVars, valueTimes, valueLocks, now, cacheLog>>

\* getValue, line 208: return self._values[attribute], leaving the with statement
GetValueReturn(t) ==
    /\ threads[t].pc = "getValue:return"
    /\ Finish(t, <<values[threads[t].attribute]>>, NoError)
    /\ valueLocks' = SetItem(valueLocks, threads[t].attribute, Free)
    /\ UNCHANGED <<focusVars, config, streamVars, storeVars, values, valueTimes, now, cacheLog>>

\* SetValue, line 212: self._values[attribute] = val
SetValueValue(t) ==
    /\ threads[t].pc = "SetValue:value"
    /\ values' = SetItem(values, threads[t].attribute, threads[t].arg[1])
    /\ cacheLog' = [cacheLog EXCEPT !.lastSet[threads[t].attribute] = threads[t].arg]
    /\ Goto(t, "SetValue:time")
    /\ UNCHANGED <<focusVars, config, streamVars, storeVars, valueTimes, valueLocks, now>>

\* SetValue, line 213: self._valueTimes[attribute] = time.time(), leaving the with
\* statement
SetValueTime(t) ==
    /\ threads[t].pc = "SetValue:time"
    /\ LET a == threads[t].attribute
       IN  /\ valueTimes' = SetItem(valueTimes, a, StoredTime(a))
           /\ valueLocks' = SetItem(valueLocks, a, Free)
           /\ cacheLog' = [cacheLog EXCEPT !.setTimes[a] =
                    IF @ = <<>> THEN <<now>> ELSE <<@[Len(@)], now>>]
    /\ Finish(t, NoValue, NoError)
    /\ UNCHANGED <<focusVars, config, streamVars, storeVars, values, now>>

\* hasNewValueSince(attribute, since): _valueTimes is a DefaultDict(time.time), so
\* reading a missing attribute stores the current time for it
HasNewValueSince(t, attribute, since) ==
    /\ threads[t].pc = "idle"
    /\ valueTimes' = IF attribute \in DOMAIN valueTimes THEN valueTimes
                     ELSE SetItem(valueTimes, attribute, now)
    /\ threads' = [threads EXCEPT ![t] =
            [pc |-> "idle", op |-> "hasNewValueSince", attribute |-> attribute,
             arg |-> <<since>>, ret |-> <<IsNewer(since, attribute)'>>,
             exc |-> NoError]]
    /\ UNCHANGED <<focusVars, config, streamVars, storeVars, values, valueLocks, now, cacheLog>>

\* time.time() advances
Tick ==
    /\ now < MaxTime
    /\ now' = now + 1
    /\ UNCHANGED <<focusVars, config, streamVars, storeVars, values, valueTimes, valueLocks,
                   threads, cacheLog>>

NextCache ==
    \/ \E t \in Threads, a \in CacheNames : GetValueCall(t, a)
    \/ \E t \in Threads, a \in CacheNames, v \in CacheValues : SetValueCall(t, a, v)
    \/ \E t \in Threads : Acquire(t)
    \/ \E t \in Threads : GetValueCheck(t)
    \/ \E t \in Threads : GetValueStore(t)
    \/ \E t \in Threads : GetValueReturn(t)
    \/ \E t \in Threads : SetValueValue(t)
    \/ \E t \in Threads : SetValueTime(t)
    \/ \E a \in CacheNames, since \in 0..now : HasNewValueSince("caller", a, since)
    \/ Tick

SpecCache == InitCache /\ [][NextCache]_vars

\* A thread has returned from getValue(attribute) with a value
Returned(t, attribute) ==
    /\ threads[t].pc = "idle"
    /\ threads[t].op = "getValue"
    /\ threads[t].attribute = attribute
    /\ threads[t].exc = NoError

\* The step is a call of hasNewValueSince by the thread
Asked(t) ==
    /\ threads'[t].op = "hasNewValueSince"
    /\ IF threads[t].op = "hasNewValueSince" THEN threads'[t] # threads[t] ELSE TRUE

\* C9: newest write wins. A getValue(A) that returns after SetValue calls on A returns
\* the value of the last of them; a SetValue on A changes the cached value of no other
\* attribute; and when the last two SetValue calls on A read the clock at t1 and then
\* at t2 > t1, hasNewValueSince(A, t1) answers true.
C9_NewestWriteWins ==
    [][\A t \in Threads :
        LET a == threads[t].attribute
            b == threads'[t].attribute
            setTimes == cacheLog.setTimes[b]
        IN  /\ (/\ threads[t].pc = "getValue:return"
                 /\ threads'[t].pc = "idle"
                 /\ cacheLog.lastSet[a] # NoValue)
                    => threads'[t].ret = cacheLog.lastSet[a]
            /\ (threads[t].pc = "SetValue:value" /\ threads'[t].pc = "SetValue:time")
                    => /\ values'[a] = threads[t].arg[1]
                       /\ \A other \in CacheNames \ {a} :
                            /\ other \in DOMAIN values' <=> other \in DOMAIN values
                            /\ other \in DOMAIN values => values'[other] = values[other]
            /\ (/\ Asked(t)
                 /\ Len(setTimes) = 2
                 /\ threads'[t].arg = <<setTimes[1]>>
                 /\ setTimes[1] < setTimes[2])
                    => threads'[t].ret = <<TRUE>>]_vars

\* rate was set twice, at time 0 and at time 1, the last value being 2; after that
\* the io thread got 2 from getValue(rate) and the caller got true from
\* hasNewValueSince(rate, 0), the cache holding nothing for volume
C9_Witness ==
    /\ cacheLog.setTimes[rate] = <<0, 1>>
    /\ cacheLog.lastSet[rate] = <<2>>
    /\ Returned("io", rate)
    /\ threads["io"].ret = <<2>>
    /\ threads["caller"].op = "hasNewValueSince"
    /\ threads["caller"].attribute = rate
    /\ threads["caller"].arg = <<0>>
    /\ threads["caller"].ret = <<TRUE>>
    /\ volume \notin DOMAIN values

\* C10: the lazy default is computed at most once. The default value getter is
\* called at most once for an attribute, however the threads interleave; and a thread
\* that has returned from getValue(A) for an attribute A that was never set got the
\* default value of A's resolved receiver, which was computed once and is the cached
\* value.
C10_DefaultComputedOnce ==
    \A a \in CacheNames :
        /\ cacheLog.supplied[a] <= 1
        /\ \A t \in Threads :
            (Returned(t, a) /\ cacheLog.lastSet[a] = NoValue)
                => /\ cacheLog.supplied[a] = 1
                   /\ threads[t].ret = <<GetDefaultValue(a)>>
                   /\ a \in DOMAIN values
                   /\ values[a] = GetDefaultValue(a)

\* Both threads have returned from getValue(rate), rate was never set, both got the
\* default value and the default value getter was called once
C10_Witness ==
    /\ \A t \in Threads : Returned(t, rate) /\ threads[t].ret = <<GetDefaultValue(rate)>>
    /\ cacheLog.lastSet[rate] = NoValue
    /\ cacheLog.supplied[rate] = 1

-----------------------------------------------------------------------------
(* getRemoteAttribute: the synchronous fetch, the caller waiting while the I/O   *)
(* thread runs _onReceive                                                        *)

\* The attributes fetched: rate has a receiver, volume has none
FetchNames == {rate, volume}

\* The timeout argument of getRemoteAttribute, in clock ticks
Timeouts == 1..MaxTime

\* The attribute updates the peer writes while the caller waits
FetchPayloads == {AttributePayload(a, <<40>>) : a \in FetchNames}

\* The _onReceive calls made so far: hwIo sets the receive event after each
Received == Len(sent) - (IF Delivered THEN 0 ELSE 1)

\* REQUESTRemoteAttribute, line 307: the payload of the request
RequestPayloadValued(attribute) == AttributePayload(attribute, <<0>>)
RequestPayload(attribute) == AttributePayload(attribute, <<>>)

\* getRemoteAttribute, line 324: getValue(value).  No name value is bound in the
\* function or in the module, so evaluating the argument raises NameError and
\* getValue is not called.
NewValue(attribute) == [exc |-> "NameError", ret |-> NoValue]

FetchIdle ==
    [pc |-> "idle", attribute |-> <<>>, timeout |-> 0, initialTime |-> 0,
     curTime |-> 0, seen |-> 0, mark |-> 0, from |-> 0, polled |-> FALSE,
     waited |-> FALSE, replied |-> FALSE, ret |-> NoValue, exc |-> NoError,
     calls |-> 0]

InitFetch ==
    /\ driverType = BRAILLE
    /\ byteorder = "little"
    /\ debug = TRUE
    /\ commandHandlers = CommandsOf(driverType)
    /\ senders = SenderFixture
    /\ receivers = ReceiverFixture
    /\ StreamInit
    /\ StoreInit
    /\ FocusInit
    /\ values = <<>>
    /\ valueTimes = <<>>
    /\ valueLocks = <<>>
    /\ now = 0
    /\ threads = [t \in {"caller"} |-> FetchIdle]
    /\ cacheLog = <<>>

Caller == threads["caller"]

Step(fields) ==
    threads' = [threads EXCEPT !["caller"] =
                    [f \in DOMAIN @ |-> IF f \in DOMAIN fields THEN fields[f] ELSE @[f]]]

\* An update for the attribute being fetched was dispatched after the request
Replied ==
    \E i \in (Caller.from + 1)..Len(dispatched) :
        /\ dispatched[i].command = ATTRIBUTE
        /\ dispatched[i].payload = AttributePayload(Caller.attribute, <<40>>)

\* self._valueTimes[attribute], line 198, _valueTimes being a DefaultDict(time.time)
TimeOf(attribute) ==
    IF attribute \in DOMAIN valueTimes THEN valueTimes[attribute] ELSE now

\* The predicate of _safeWait, line 323: hasNewValueSince(attribute, initialTime),
\* which stores the current time for an attribute _valueTimes does not hold
Predicate ==
    /\ valueTimes' = SetItem(valueTimes, Caller.attribute, TimeOf(Caller.attribute))
    /\ UNCHANGED <<values, valueLocks>>

\* What the predicate answers
PredicateHolds == Caller.initialTime < TimeOf(Caller.attribute)

\* getRemoteAttribute(attribute, timeout), line 321: initialTime = time.time()
GetRemoteAttribute(attribute, timeout) ==
    /\ Caller.pc \in {"idle", "done"}
    /\ Caller.calls < MaxCalls
    /\ Step([pc |-> "request", attribute |-> attribute, timeout |-> timeout,
             initialTime |-> now, curTime |-> 0, mark |-> Len(written),
             from |-> Len(dispatched), polled |-> FALSE, waited |-> FALSE,
             replied |-> FALSE, ret |-> NoValue, exc |-> NoError, calls |-> Caller.calls + 1])
    /\ UNCHANGED <<focusVars, config, streamVars, storeVars, values, valueTimes, valueLocks, now,
                   cacheLog>>

\* line 322: self.REQUESTRemoteAttribute(attribute=attribute)
RequestRemoteAttribute ==
    /\ Caller.pc = "request"
    /\ written' = Append(written, MessageData(driverType, ATTRIBUTE,
                                    RequestPayload(Caller.attribute), byteorder))
    /\ Step([pc |-> "while", from |-> Len(dispatched)])
    /\ UNCHANGED <<focusVars, config, receiveBuffer, wire, sent, received, outcome, invoked,
                   dispatched, attrCalls, storeVars, values, valueTimes, valueLocks,
                   now, cacheLog>>

\* _safeWait, line 310: while timeout > 0.0
SafeWaitWhile ==
    /\ Caller.pc = "while"
    /\ IF Caller.timeout > 0
       THEN Step([pc |-> "predicate"])
       ELSE Step([pc |-> "return", waited |-> TRUE])
    /\ UNCHANGED <<focusVars, config, streamVars, storeVars, values, valueTimes, valueLocks, now,
                   cacheLog>>

\* _safeWait, lines 311-313: if predicate(): return True; curTime = time.time()
SafeWaitPredicate ==
    /\ Caller.pc = "predicate"
    /\ Predicate
    /\ IF PredicateHolds
       THEN Step([pc |-> "getValue", polled |-> TRUE, replied |-> Replied])
       ELSE Step([pc |-> "waitForRead", polled |-> TRUE, curTime |-> now])
    /\ UNCHANGED <<focusVars, config, streamVars, storeVars, now, cacheLog>>

\* _safeWait, lines 314-317: waitForRead(timeout) returns True once _onReceive has
\* run on a chunk; then timeout -= time.time() - curTime
WaitForReadTrue ==
    /\ Caller.pc = "waitForRead"
    /\ Received > Caller.seen
    /\ Step([pc |-> "while", seen |-> Received,
             timeout |-> Caller.timeout - (now - Caller.curTime)])
    /\ UNCHANGED <<focusVars, config, streamVars, storeVars, values, valueTimes, valueLocks, now,
                   cacheLog>>

\* _safeWait, lines 314-316: waitForRead(timeout) returns False when the timeout has
\* passed; break
WaitForReadFalse ==
    /\ Caller.pc = "waitForRead"
    /\ now - Caller.curTime >= Caller.timeout
    /\ Step([pc |-> "return", waited |-> TRUE])
    /\ UNCHANGED <<focusVars, config, streamVars, storeVars, values, valueTimes, valueLocks, now,
                   cacheLog>>

\* _safeWait, line 318: return predicate(); getRemoteAttribute, line 327: raise
\* TimeoutError
SafeWaitReturn ==
    /\ Caller.pc = "return"
    /\ Predicate
    /\ IF PredicateHolds
       THEN Step([pc |-> "getValue", replied |-> Replied])
       ELSE Step([pc |-> "done", replied |-> Replied, exc |-> "TimeoutError"])
    /\ UNCHANGED <<focusVars, config, streamVars, storeVars, now, cacheLog>>

\* getRemoteAttribute, lines 324-326
GetRemoteAttributeReturn ==
    /\ Caller.pc = "getValue"
    /\ LET r == NewValue(Caller.attribute)
       IN  Step([pc |-> "done", exc |-> r.exc, ret |-> r.ret])
    /\ UNCHANGED <<focusVars, config, streamVars, storeVars, values, valueTimes, valueLocks, now,
                   cacheLog>>

NextFetch ==
    \/ \E a \in FetchNames, t \in Timeouts : GetRemoteAttribute(a, t)
    \/ RequestRemoteAttribute
    \/ SafeWaitWhile
    \/ SafeWaitPredicate
    \/ WaitForReadTrue
    \/ WaitForReadFalse
    \/ SafeWaitReturn
    \/ GetRemoteAttributeReturn
    \/ \E p \in FetchPayloads : PeerWrite(ATTRIBUTE, p)
    \/ DeliverWhole
    \/ Tick

SpecFetch == InitFetch /\ [][NextFetch]_vars

\* C11: when no update for A is processed after getRemoteAttribute(A, timeout) sent
\* its request, the call ends with a timeout error and without a value, and not
\* before waitForRead reported no activity or the time budget was used up.
C11_TimeoutWhenNoReply ==
    (Caller.pc = "done" /\ ~Caller.replied)
        => (Caller.exc = "TimeoutError" /\ Caller.ret = NoValue /\ Caller.waited)

\* C12: when the peer's attribute-set reply for A, carrying the bytes b, is processed
\* by _onReceive before the wait of getRemoteAttribute(A, timeout) is over and a
\* receiver is registered for A, getRemoteAttribute raises nothing and returns the
\* value the receiver converts b to.
C12_FetchReturnsReceivedValue ==
    (/\ Caller.pc = "done"
     /\ Caller.replied
     /\ GetRawHandler(receivers, Caller.attribute) # 0)
        => /\ Caller.exc = NoError
           /\ Caller.ret =
                <<Convert(receivers[GetRawHandler(receivers, Caller.attribute)], <<40>>)>>

\* C17: one call of getRemoteAttribute(A, timeout) writes exactly one message, the
\* request for A (attribute command, payload SEP A SEP, empty value); it is written
\* before the predicate is first checked, and the wait loop, however often it runs
\* and however the call ends, writes nothing.
C17_OneRequestPerFetch ==
    /\ Caller.pc = "request" => (Len(written) = Caller.mark /\ ~Caller.polled)
    /\ Caller.pc \in {"while", "predicate", "waitForRead", "return", "getValue", "done"}
          => /\ Len(written) = Caller.mark + 1
             /\ written[Caller.mark + 1] =
                    MessageData(driverType, ATTRIBUTE,
                        <<ATTRIBUTE_SEPARATOR>> \o Caller.attribute
                            \o <<ATTRIBUTE_SEPARATOR>>, byteorder)

\* A fetch of rate went through the wait loop twice, waitForRead having returned
\* True once, and ended with TimeoutError, one request having been written
C17_Witness ==
    /\ Caller.pc = "done"
    /\ Caller.attribute = rate
    /\ Caller.exc = "TimeoutError"
    /\ Caller.seen > 0
    /\ Caller.calls = 1
    /\ written = <<MessageData(driverType, ATTRIBUTE, RequestPayload(rate), byteorder)>>

-----------------------------------------------------------------------------
(* Attribute updates: _handleAttributeChanges on received frames, and            *)
(* AttributeValueProcessor.__call__                                              *)

\* Receivers with checked payload lengths: rate is declared (self, payload), volume
\* (self, attribute, payload)
UpdateReceivers ==
    <<[attribute |-> rate, fn |-> "exact", default |-> 0, size |-> 1],
      [attribute |-> volume, fn |-> "wild", default |-> 0, size |-> 1]>>

UpdateNames == {rate, volume}

UpdateValues == {<<40>>, <<40, 0>>}

UpdatePayloads == {AttributePayload(a, v) : a \in UpdateNames, v \in UpdateValues}

NoCaller == [op |-> "none", attribute |-> <<>>, val |-> <<>>, exc |-> NoError]

InitUpdate ==
    /\ driverType = BRAILLE
    /\ byteorder = "little"
    /\ debug \in BOOLEAN
    /\ commandHandlers = CommandsOf(driverType)
    /\ senders = SenderFixture
    /\ receivers = UpdateReceivers
    /\ StreamInit
    /\ StoreInit
    /\ FocusInit
    /\ values = <<>>
    /\ valueTimes = <<>>
    /\ valueLocks = <<>>
    /\ now = 0
    /\ threads = [t \in {"caller"} |-> NoCaller]
    /\ cacheLog = <<>>

\* AttributeValueProcessor.__call__(attribute, val), lines 215-218: the exception that
\* leaves it ("none" when it returns) and the value it passes to SetValue
ValueProcessor(attribute, val) ==
    LET i == GetRawHandler(receivers, attribute)
        \* partial(rawHandler, attribute)(val)
        args == CallArgs(receivers[i], attribute, <<val>>)
    IN  IF i = 0 THEN [exc |-> "NotImplementedError", set |-> <<>>]
        ELSE IF Len(args) \notin Params(receivers[i])
        THEN [exc |-> "TypeError", set |-> <<>>]
        ELSE IF ConversionRaises(receivers[i], val)
        THEN [exc |-> "AssertionError", set |-> <<>>]
        ELSE [exc |-> "none", set |-> <<Convert(receivers[i], val)>>]

\* A caller runs self._attributeValueProcessor(attribute, val); SetValue, under the
\* lock of the attribute, stores the value and the time
ValueProcessorCall(attribute, val) ==
    LET r == ValueProcessor(attribute, val)
    IN  /\ LockFree(attribute)
        /\ threads' = [threads EXCEPT !["caller"] =
                [op |-> "__call__", attribute |-> attribute, val |-> val,
                 exc |-> r.exc]]
        /\ IF r.set = <<>>
           THEN UNCHANGED <<values, valueTimes, valueLocks>>
           ELSE /\ values' = SetItem(values, attribute, r.set[1])
                /\ valueTimes' = SetItem(valueTimes, attribute, StoredTime(attribute))
                /\ valueLocks' = SetItem(valueLocks, attribute, Free)
        /\ UNCHANGED <<focusVars, config, streamVars, storeVars, now, cacheLog>>

NextUpdate ==
    \/ \E p \in UpdatePayloads : PeerWrite(ATTRIBUTE, p)
    \/ DeliverWhole
    \/ \E a \in UpdateNames, v \in UpdateValues : ValueProcessorCall(a, v)
    \/ Tick

SpecUpdate == InitUpdate /\ [][NextUpdate]_vars

\* The step is the _onReceive call for a whole frame that updates attribute with value
IsUpdate(attribute, value) ==
    /\ IsDeliver
    /\ wire.pos = 0
    /\ receiveBuffer = <<>>
    /\ wire.data = MessageData(driverType, ATTRIBUTE,
                        AttributePayload(attribute, value), byteorder)

\* C13: when _onReceive dispatches an attribute frame for A with a non-empty value
\* and a receiver matches A, the value the receiver converts it to is stored:
\* afterwards the cache holds it for A, with the time of processing, so that
\* hasNewValueSince(A, t) is true for every earlier t.
C13_IncomingUpdateIsCached ==
    [][\A a \in UpdateNames, v \in UpdateValues :
        LET i == GetRawHandler(receivers, a)
        IN  (IsUpdate(a, v) /\ i # 0 /\ ~ConversionRaises(receivers[i], v))
                => /\ a \in DOMAIN values'
                   /\ values'[a] = Convert(receivers[i], v)
                   /\ a \in DOMAIN valueTimes'
                   /\ \A t \in 0..(now - 1) : t < valueTimes'[a]]_vars

\* C19: when the conversion callback of the receiver resolved for A raises on the
\* value of an update, the error leaves _onReceive, or the call of the value
\* processor, and the cached values and the update times of all attributes stay as
\* they were.
C19_FailingConversionPropagates ==
    [][\A a \in UpdateNames, v \in UpdateValues :
        LET i == GetRawHandler(receivers, a)
            raises == i # 0 /\ ConversionRaises(receivers[i], v)
        IN  /\ (IsUpdate(a, v) /\ raises)
                    => (outcome' \in Errors /\ UNCHANGED <<values, valueTimes>>)
            /\ (/\ threads' # threads
                 /\ threads'["caller"].attribute = a
                 /\ threads'["caller"].val = v
                 /\ raises)
                    => /\ threads'["caller"].exc \in Errors
                       /\ UNCHANGED <<values, valueTimes>>]_vars

\* rate was cached by a call of the value processor; then the update of volume with
\* a two byte value made the callback of volume raise AssertionError out of
\* _onReceive, the cache still holding rate only
C19_Witness ==
    /\ Delivered
    /\ Len(sent) = 1
    /\ sent[1].payload = AttributePayload(volume, <<40, 0>>)
    /\ outcome = "AssertionError"
    /\ attrCalls = <<[store |-> "receiver", index |-> 2, args |-> <<volume, <<40, 0>>>>]>>
    /\ DOMAIN values = {rate}
    /\ values[rate] = 40
    /\ DOMAIN valueTimes = {rate}

\* The step is the _onReceive call for a whole frame that requests attribute
IsRequest(attribute) == IsUpdate(attribute, <<>>)

\* C14: when _onReceive dispatches an attribute frame for A with an empty value and
\* a sender matches A, exactly one message is written, the attribute command with
\* the payload SEP A SEP followed by the sender's value for A, and the cache is not
\* changed.
C14_RequestAnsweredOnce ==
    [][\A a \in WireNames :
        LET i == GetRawHandler(senders, a)
            h == senders[i]
            value == FetchValue(h, IF IsCatchAll(h) THEN <<a>> ELSE <<>>)
        IN  (IsRequest(a) /\ i # 0)
                => /\ written' = Append(written,
                            MessageData(driverType, ATTRIBUTE,
                                <<ATTRIBUTE_SEPARATOR>> \o a \o <<ATTRIBUTE_SEPARATOR>>
                                    \o value, byteorder))
                   /\ UNCHANGED <<values, valueTimes>>]_vars

\* C18: a handler is catch-all iff its pattern contains the wildcard marker; when an
\* attribute frame for N is dispatched, the callback of a catch-all handler is called
\* with N as an argument and the callback of an exact handler without it: a sender
\* with no argument more, a receiver with the raw value only.
C18_ArgumentConvention ==
    [][\A a \in WireNames, v \in WireValues :
        LET store == IF v = <<>> THEN senders ELSE receivers
            i == GetRawHandler(store, a)
            h == store[i]
            own == IF v = <<>> THEN <<>> ELSE <<v>>
        IN  (IsUpdate(a, v) /\ i # 0)
                => /\ IsCatchAll(h) <=> (\E k \in 1..Len(h.attribute) : h.attribute[k] = STAR)
                   /\ attrCalls' = Append(attrCalls,
                        [store |-> IF v = <<>> THEN "sender" ELSE "receiver",
                         index |-> i,
                         args |-> IF IsCatchAll(h) THEN <<a>> \o own ELSE own])]_vars

-----------------------------------------------------------------------------
(* RemoteHandler (globalPlugins/nvdaRd/handlers/_remoteHandler.py): the focus    *)
(* decision and the read-error decision                                        *)

MAX_TIME_SINCE_INPUT_FOR_REMOTE_SESSION_FOCUS == 200

timeSinceInput ==                                  \* GenericAttribute.TIME_SINCE_INPUT
    <<116, 105, 109, 101, 83, 105, 110, 99, 101, 73, 110, 112, 117, 116>>

\* self._dev.pipeProcessId, and the process ids api.getFocusObject() may report
PipeProcessId == "remote"
ProcessIds == {"remote", "local"}

\* What a handler registered on decide_remoteDisconnect returns when it is called
Votes == BOOLEAN

\* The error codes the transport reports: ERROR_BROKEN_PIPE, ERROR_PIPE_NOT_CONNECTED
ReadErrors == {109, 233}

\* The payloads the peer sends for timeSinceInput: 200 and 201 as four bytes, least
\* significant first, and one of a wrong length
TimePayloads == {<<200, 0, 0, 0>>, <<201, 0, 0, 0>>, <<200>>}

\* _incoming_timeSinceInput, registered as
\* attributeReceiver(GenericAttribute.TIME_SINCE_INPUT, defaultValue=False)
FocusReceivers ==
    <<[attribute |-> timeSinceInput, fn |-> "exact", default |-> 0, size |-> 4]>>

\* _post_timeSinceInput, line 125
SessionHasFocusStrict(value) == value < MAX_TIME_SINCE_INPUT_FOR_REMOTE_SESSION_FOCUS
SessionHasFocus(value) == value <= MAX_TIME_SINCE_INPUT_FOR_REMOTE_SESSION_FOCUS

\* event_gainFocus, line 67: self.invalidateCache() empties the property cache of the
\* AutoPropertyObject; the values held by the AttributeValueProcessor stay
InvalidateCacheClears(vals) == <<>>
InvalidateCache(vals) == vals

\* AccumulatingDecider(False).decide(handler=self, error=error): every handler is
\* called, and the answer is the opposite of the default, True, as soon as one
\* handler gave it, the default otherwise
Decide(votes) == \E i \in DOMAIN votes : votes[i]

InitFocus ==
    /\ driverType = BRAILLE
    /\ byteorder = "little"
    /\ debug \in BOOLEAN
    /\ commandHandlers = CommandsOf(driverType)
    /\ senders = SenderFixture
    /\ receivers = FocusReceivers
    /\ StreamInit
    /\ StoreInit
    /\ FocusInit
    /\ values = <<>>
    /\ valueTimes = <<>>
    /\ valueLocks = <<>>
    /\ now = 0
    /\ threads = <<>>
    /\ cacheLog = [source |-> <<>>]

\* The operation op was called and returned ret: the voters _onReadError asked and
\* the decision that was cached when event_gainFocus was called
Answer(op, ret) ==
    /\ answer.calls < MaxCalls
    /\ answer' = [op |-> op, ret |-> ret,
                  voters |-> IF op = "_onReadError" THEN voters ELSE <<>>,
                  before |-> IF op = "event_gainFocus" THEN remoteSessionhasFocus
                             ELSE NoValue,
                  calls |-> answer.calls + 1]

\* decide_remoteDisconnect.register(handler)
RegisterVoter(v) ==
    /\ Len(voters) < MaxVoters
    /\ voters' = Append(voters, v)
    /\ UNCHANGED <<config, streamVars, cacheVars, storeVars, remoteSessionhasFocus,
                   focusProcess, answer>>

\* The focus moves to an object of the process pid
FocusMoves(pid) ==
    /\ focusProcess # pid
    /\ focusProcess' = pid
    /\ UNCHANGED <<config, streamVars, cacheVars, storeVars, remoteSessionhasFocus,
                   voters, answer>>

\* _onReadError(error), lines 132-133
OnReadError(error) ==
    /\ Answer("_onReadError", <<Decide(voters)>>)
    /\ UNCHANGED <<config, streamVars, cacheVars, storeVars, remoteSessionhasFocus,
                   focusProcess, voters>>

\* event_gainFocus(obj), lines 60-68
EventGainFocus ==
    /\ Answer("event_gainFocus", NoValue)
    /\ values' = InvalidateCache(values)
    /\ remoteSessionhasFocus' = NoValue
    /\ cacheLog' = [source |-> <<>>]
    /\ UNCHANGED <<config, streamVars, storeVars, valueTimes, valueLocks, now, threads,
                   focusProcess, voters>>

\* _get_hasFocus, lines 106-115; requestRemoteAttribute writes the request for the
\* attribute as REQUESTRemoteAttribute does
GetHasFocus ==
    LET remoteProcessHasFocus == focusProcess = PipeProcessId
    IN  IF ~remoteProcessHasFocus
        THEN /\ Answer("hasFocus", <<remoteProcessHasFocus>>)
             /\ UNCHANGED <<config, streamVars, cacheVars, storeVars,
                            remoteSessionhasFocus, focusProcess, voters>>
        ELSE IF remoteSessionhasFocus # NoValue
        THEN /\ Answer("hasFocus", remoteSessionhasFocus)
             /\ UNCHANGED <<config, streamVars, cacheVars, storeVars,
                            remoteSessionhasFocus, focusProcess, voters>>
        ELSE /\ Answer("hasFocus", <<FALSE>>)
             /\ written' = Append(written, MessageData(driverType, ATTRIBUTE,
                                        RequestPayload(timeSinceInput), byteorder))
             /\ UNCHANGED <<config, receiveBuffer, wire, sent, received, outcome,
                            invoked, dispatched, attrCalls, cacheVars, storeVars,
                            remoteSessionhasFocus, focusProcess, voters>>

\* The I/O thread handles an update of attribute with the bytes raw: the receiver is
\* resolved, converts raw, the value is stored with SetValue, and the updateCallback
\* of the receiver, _post_timeSinceInput (lines 122-127), is called with the value
HandleIncoming(attribute, raw) ==
    LET r == ValueProcessor(attribute, raw)
    IN  /\ LockFree(attribute)
        /\ outcome' = Outcome(r.exc)
        /\ IF r.set = <<>>
           THEN UNCHANGED <<values, valueTimes, valueLocks, remoteSessionhasFocus,
                            cacheLog>>
           ELSE /\ values' = SetItem(values, attribute, r.set[1])
                /\ valueTimes' = SetItem(valueTimes, attribute, StoredTime(attribute))
                /\ valueLocks' = SetItem(valueLocks, attribute, Free)
                /\ remoteSessionhasFocus' = <<SessionHasFocus(r.set[1])>>
                /\ cacheLog' = [source |-> r.set]
        /\ UNCHANGED <<config, receiveBuffer, wire, sent, received, invoked, dispatched,
                       attrCalls, written, storeVars, now, threads, focusProcess,
                       voters, answer>>

NextFocus ==
    \/ \E v \in Votes : RegisterVoter(v)
    \/ \E pid \in ProcessIds : FocusMoves(pid)
    \/ \E error \in ReadErrors : OnReadError(error)
    \/ EventGainFocus
    \/ GetHasFocus
    \/ \E raw \in TimePayloads : HandleIncoming(timeSinceInput, raw)

SpecFocus == InitFocus /\ [][NextFocus]_vars

\* C15: the read-error callback reports "disconnect" only if every voter registered
\* on the remote-disconnect decision approves; one disapproving voter keeps the
\* connection.
C15_DisconnectNeedsUnanimity ==
    (answer.op = "_onReadError" /\ answer.ret = <<TRUE>>)
        => \A i \in DOMAIN answer.voters : answer.voters[i]

\* The step is a call of the RemoteHandler operation op
IsCall(op) == answer'.calls = answer.calls + 1 /\ answer'.op = op

C20_GainFocusClearsOnlyDecision ==
    [][IsCall("event_gainFocus")
        => /\ remoteSessionhasFocus' = NoValue
           /\ UNCHANGED <<values, valueTimes, receiveBuffer, commandHandlers, senders,
                          receivers, written>>]_vars

\* event_gainFocus was called with a decision cached and a value in the cache
C20_Witness ==
    /\ answer.op = "event_gainFocus"
    /\ answer.before # NoValue
    /\ timeSinceInput \in DOMAIN values
    /\ remoteSessionhasFocus = NoValue

-----------------------------------------------------------------------------
(* hasNewValueSince, the final check of _safeWait, and the locks of the cache *)

\* C21: hasNewValueSince(A, t) answers true only if a value for A was cached by
\* SetValue with a timestamp strictly greater than t; for an attribute that was never
\* set it answers false.
C21_HasNewValueSince ==
    LET c == threads["caller"]
    IN  (c.op = "hasNewValueSince" /\ c.ret = <<TRUE>>)
            => /\ cacheLog.setTimes[c.attribute] # <<>>
               /\ c.arg[1] < cacheLog.setTimes[c.attribute][Len(cacheLog.setTimes[c.attribute])]

\* While the caller is in getRemoteAttribute, the receive thread runs
\* self._attributeValueProcessor(attribute, val), lines 215-218, the call that
\* converts the bytes and stores the value with SetValue; cacheLog keeps, for the
\* value stored last, where the caller was and what the clock read
ReceiveThreadSets(attribute, val) ==
    LET r == ValueProcessor(attribute, val)
    IN  /\ Caller.pc \notin {"idle", "done"}
        /\ r.set # <<>>
        /\ LockFree(attribute)
        /\ values' = SetItem(values, attribute, r.set[1])
        /\ valueTimes' = SetItem(valueTimes, attribute, StoredTime(attribute))
        /\ valueLocks' = SetItem(valueLocks, attribute, Free)
        /\ cacheLog' = <<[attribute |-> attribute, during |-> Caller.pc,
                          call |-> Caller.calls, time |-> now]>>
        /\ UNCHANGED <<focusVars, config, streamVars, storeVars, now, threads>>

NextRendezvous ==
    \/ NextFetch
    \/ \E a \in FetchNames : ReceiveThreadSets(a, <<40>>)

SpecRendezvous == InitFetch /\ [][NextRendezvous]_vars

\* C22: when a new value for A is cached while getRemoteAttribute(A) is in its last
\* waitForRead, after which the loop is left, the predicate checked after the loop
\* holds and getRemoteAttribute returns the cached value instead of reporting a
\* timeout.
C22_FinalRecheck ==
    (/\ Caller.pc = "done"
     /\ Caller.waited
     /\ \E i \in DOMAIN cacheLog :
            /\ cacheLog[i].attribute = Caller.attribute
            /\ cacheLog[i].call = Caller.calls
            /\ cacheLog[i].during = "waitForRead"
            /\ Caller.initialTime < cacheLog[i].time)
        => /\ Caller.exc = NoError
           /\ Caller.ret = <<values[Caller.attribute]>>

\* The thread is inside the with statement of getValue or SetValue
InCriticalSection(t) ==
    threads[t].pc \in {"getValue:check", "getValue:store", "getValue:return",
                       "SetValue:value", "SetValue:time"}

\* No two threads are inside the with statement for the same attribute, and a thread
\* that arrives at the with statement for an attribute finds its lock free while
\* another thread is inside the with statement for a different attribute
Exclusion ==
    \A t \in Threads : \A u \in Threads \ {t} :
        /\ (InCriticalSection(t) /\ InCriticalSection(u))
                => threads[t].attribute # threads[u].attribute
        /\ (/\ InCriticalSection(t)
            /\ threads[u].pc \in {"getValue", "SetValue"}
            /\ threads[u].attribute # threads[t].attribute)
                => LockFree(threads[u].attribute)

\* C23: the critical sections of getValue(A) and SetValue(A, v) exclude each other;
\* a getValue(A) that returns after a SetValue on A wrote its value returns the value
\* set last, never the default; and a thread inside the critical section of A leaves
\* the lock of another attribute B free.
C23_DefaultNeverReplacesReceived ==
    [][/\ Exclusion'
       /\ \A t \in Threads :
            LET a == threads[t].attribute
            IN  (/\ threads[t].pc = "getValue:return"
                 /\ threads'[t].pc = "idle"
                 /\ cacheLog.lastSet[a] # NoValue)
                    => /\ threads'[t].ret = cacheLog.lastSet[a]
                       /\ values'[a] = cacheLog.lastSet[a][1]
                       /\ threads'[t].ret # <<0>>]_vars

\* The caller got 2 from getValue(rate), after SetValue(rate, 2), while the io thread
\* is inside the critical section of SetValue on volume
C23_Witness ==
    /\ Returned("caller", rate)
    /\ threads["caller"].ret = <<2>>
    /\ cacheLog.lastSet[rate] = <<2>>
    /\ threads["io"].pc = "SetValue:time"
    /\ threads["io"].attribute = volume

=============================================================================
